---- MODULE Spec2Model ----
(***************************************************************************)
(* nanogit: the repository cache (src/src/lib.rs, RepoCache) and the way   *)
(* the UI thread drives it (src/src/main.rs, GitApp::update).              *)
(*                                                                         *)
(* Threads: the calling (UI) thread, which runs one verb at a time, and    *)
(* the detached workers spawned by refresh().  A thread's pc names the     *)
(* statement it is executing; a step of an action is the completion of     *)
(* that statement.  The git2 library is modelled by what the calls used    *)
(* in lib.rs do to an abstract repository: a state per path, the commit    *)
(* chain of HEAD, and whether user.name/user.email are configured.         *)
(***************************************************************************)
EXTENDS Naturals, Sequences, FiniteSets, TLC

VARIABLES
    files,          \* repository: path -> state of the path (index vs HEAD vs work tree)
    dirty,          \* repository: the in-memory index has changes index.write() has not saved
    head,           \* repository: the commits reachable from HEAD, newest first
    identity,       \* repository: user.name and user.email are both configured
    repoLock,       \* RepoCache.repo: the thread holding the Mutex<Repository>
    poisoned,       \* RepoCache.repo: a thread panicked while holding the mutex
    statuses,       \* RepoCache.statuses
    log,            \* RepoCache.log
    local_refresh,  \* RepoCache.local_refresh
    remote_refresh, \* RepoCache.remote_refresh
    uiPc,           \* calling thread: the statement it is at
    uiVerb,         \* calling thread: the verb being executed
    uiArg,          \* calling thread: the verb's argument (a path; the UI's commit_message)
    walked,         \* calling thread: the local `log` of refresh (lib.rs:253)
    uiRet,          \* calling thread: the last finished call and what it returned
    pre,            \* calling thread: cache and repository as they were when the call began
    spawned,        \* number of worker threads spawned so far
    wpc,            \* worker: the statement it is at
    wres,           \* worker: the local `statuses` (lib.rs:231)
    wi,             \* worker: entries of `statuses` already pushed (lib.rs:235)
    wat,            \* worker: the instant of its SystemTime::now() (lib.rs:244), counted
                    \*         in refreshes started so far; 0 before it
    faulted         \* history: some adapter call of stage/unstage/refresh or of a worker failed

vars == <<files, dirty, head, identity, repoLock, poisoned, statuses, log,
          local_refresh, remote_refresh, uiPc, uiVerb, uiArg, walked, uiRet, pre,
          spawned, wpc, wres, wi, wat, faulted>>

repoVars   == <<files, dirty, head, identity>>
cacheVars  == <<statuses, log, local_refresh, remote_refresh>>
workerVars == <<wpc, wres, wi, wat>>

-----------------------------------------------------------------------------
(* Bounds of the model *)

\* Workers refresh() may spawn in one run (each refresh spawns one).
MaxWorkers == 2

\* The cap refresh() passes to refresh_log (lib.rs:253).
MAX_LOG == 10

Workers == 1..MaxWorkers

\* Who holds the repository mutex.
UI == [thread |-> "ui", w |-> 0]
NoThread == [thread |-> "none", w |-> 0]
Holder(w) == [thread |-> "worker", w |-> w]
\* Option<SystemTime>: None is the empty sequence, Some(t) is <<t>>.
NoTime == <<>>
Some(t) == <<t>>

PathOrder == <<"a.txt", "b.txt">>
Paths == {PathOrder[i] : i \in 1..Len(PathOrder)}

\* What the UI's commit-message field may hold when Commit is clicked
\* (main.rs:146 enables the button only for a non-empty text).
Messages == {"first", "fix typo"}

\* The literal lib.rs:164 passes to repo.commit.
HardCodedMessage == "Your commit message"

-----------------------------------------------------------------------------
(* The repository, as the git2 calls of lib.rs see it *)

FileStates == {"untracked", "staged", "committed", "removed"}

\* A history of n commits, newest first.
History(n) == [i \in 1..n |-> [id |-> n + 1 - i, message |-> "init"]]

\* index.add_path(path), lib.rs:73
add_path(f, p) ==
    [f EXCEPT ![p] = CASE f[p] = "untracked" -> "staged"
                       [] f[p] = "removed"   -> "committed"
                       [] OTHER              -> f[p]]

\* index.remove_path(path), lib.rs:81
remove_path(f, p) ==
    [f EXCEPT ![p] = CASE f[p] = "staged"    -> "untracked"
                       [] f[p] = "committed" -> "removed"
                       [] OTHER              -> f[p]]

\* The tree written by index.write_tree() becomes HEAD's tree, lib.rs:156-167
commit_tree(f) ==
    [p \in Paths |-> CASE f[p] = "staged"  -> "committed"
                       [] f[p] = "removed" -> "untracked"
                       [] OTHER            -> f[p]]

\* The flags binding.statuses(..) reports for a path, lib.rs:231,240
StatusFlags(s) ==
    CASE s = "untracked" -> "WT_NEW"
      [] s = "staged"    -> "INDEX_NEW"
      [] s = "removed"   -> "INDEX_DELETED|WT_NEW"
      [] OTHER           -> "CURRENT"

RECURSIVE StatusFrom(_, _)
StatusFrom(f, i) ==
    IF i > Len(PathOrder) THEN <<>>
    ELSE LET p == PathOrder[i]
             rest == StatusFrom(f, i + 1)
         IN IF f[p] = "committed" THEN rest
            ELSE <<[path |-> p, status |-> StatusFlags(f[p])]>> \o rest

\* binding.statuses(Some(&mut status_opts)): the entries in path order, lib.rs:231
StatusList(f) == StatusFrom(f, 1)

\* LogItem built from a commit, lib.rs:98-114
LogItemOf(c) == [commit |-> c.id, message |-> c.message]

\* The loop with the break tested one commit late.
RECURSIVE WalkLog_off_by_one(_, _, _)
WalkLog_off_by_one(h, i, max_commits) ==
    IF i > Len(h) \/ i - 1 > max_commits THEN <<>>
    ELSE <<LogItemOf(h[i])>> \o WalkLog_off_by_one(h, i + 1, max_commits)

\* The loop of refresh_log: walk from HEAD, stop at max_commits, lib.rs:96-117
RECURSIVE WalkLog(_, _, _)
WalkLog(h, i, max_commits) ==
    IF i > Len(h) \/ i - 1 >= max_commits THEN <<>>
    ELSE <<LogItemOf(h[i])>> \o WalkLog(h, i + 1, max_commits)

refresh_log(h, max_commits) == WalkLog(h, 1, max_commits)

\* The patch diff() renders for a path, lib.rs:192-212
DiffText(f, p) ==
    CASE f[p] = "untracked" -> <<"+ new">>
      [] f[p] = "staged"    -> <<"+ new">>
      [] OTHER              -> <<>>

-----------------------------------------------------------------------------
(* Initial state: RepoCache::open on a repository *)

\* The repositories the cache is opened on: an unborn HEAD, a short history, an
\* unconfigured identity, and a history longer than MAX_LOG.
Repo(n, a, b, id) ==
    [head |-> History(n), identity |-> id,
     files |-> [p \in Paths |-> IF p = "a.txt" THEN a ELSE b]]

InitRepos ==
    { Repo(0, "untracked", "untracked", TRUE),
      Repo(2, "staged", "untracked", TRUE),
      Repo(2, "untracked", "committed", FALSE),
      Repo(MAX_LOG + 1, "untracked", "committed", TRUE) }

NoPre == [valid |-> FALSE, workerFailed |-> FALSE]

Snapshot ==
    [valid |-> TRUE, spawned |-> spawned, log |-> log, head |-> head, files |-> files,
     workerFailed |-> \E w \in Workers : wpc[w] = "failed"]

\* An open that refreshes by itself: the log is walked and a worker spawned.
Init_auto_refresh ==
    /\ \E r \in InitRepos :
         /\ head = r.head
         /\ files = r.files
         /\ identity = r.identity
         /\ log = refresh_log(r.head, MAX_LOG)
    /\ dirty = FALSE
    /\ repoLock = NoThread
    /\ poisoned = FALSE
    /\ statuses = <<>>
    /\ local_refresh = NoTime
    /\ remote_refresh = NoTime
    /\ uiPc = "idle"
    /\ uiVerb = "open"
    /\ uiArg = ""
    /\ walked = <<>>
    /\ uiRet = [verb |-> "open", arg |-> "", kind |-> "ok", val |-> <<>>]
    /\ pre = NoPre
    /\ spawned = 1
    /\ wpc = [w \in Workers |-> IF w = 1 THEN "start" ELSE "unborn"]
    /\ wres = [w \in Workers |-> <<>>]
    /\ wi = [w \in Workers |-> 0]
    /\ wat = [w \in Workers |-> 0]
    /\ faulted = FALSE

\* RepoCache::open, lib.rs:60-69
Init ==
    /\ \E r \in InitRepos :
         /\ head = r.head
         /\ files = r.files
         /\ identity = r.identity
    /\ dirty = FALSE
    /\ repoLock = NoThread
    /\ poisoned = FALSE
    /\ statuses = <<>>
    /\ log = <<>>
    /\ local_refresh = NoTime
    /\ remote_refresh = NoTime
    /\ uiPc = "idle"
    /\ uiVerb = "open"
    /\ uiArg = ""
    /\ walked = <<>>
    /\ uiRet = [verb |-> "open", arg |-> "", kind |-> "ok", val |-> <<>>]
    /\ pre = NoPre
    /\ spawned = 0
    /\ wpc = [w \in Workers |-> "unborn"]
    /\ wres = [w \in Workers |-> <<>>]
    /\ wi = [w \in Workers |-> 0]
    /\ wat = [w \in Workers |-> 0]
    /\ faulted = FALSE

-----------------------------------------------------------------------------
(* The calling thread *)

\* A verb is entered: the thread leaves idle for the verb's first statement.
Begin(verb, arg, pc) ==
    /\ uiPc = "idle"
    /\ uiPc' = pc
    /\ uiVerb' = verb
    /\ uiArg' = arg
    /\ pre' = Snapshot
    /\ UNCHANGED <<repoVars, cacheVars, workerVars, repoLock, poisoned, walked, uiRet,
                   spawned, faulted>>

\* The path a diff call was made for: what two diff results are compared by.
DiffArg == IF uiVerb = "diff" THEN uiArg ELSE ""

\* The verb returns `kind` (Ok or an Err) with value `val` to the caller.
Return(kind, val) ==
    /\ uiPc' = "idle"
    /\ uiRet' = [verb |-> uiVerb, arg |-> DiffArg, kind |-> kind, val |-> val]
    /\ uiArg' = ""
    /\ walked' = <<>>
    /\ pre' = NoPre
    /\ UNCHANGED uiVerb

\* .lock().unwrap() on the poisoned repository mutex: the calling thread panics.
Panic(kind) ==
    /\ uiPc' = "panicked"
    /\ uiRet' = [verb |-> uiVerb, arg |-> DiffArg, kind |-> kind, val |-> <<>>]
    /\ uiArg' = ""
    /\ walked' = <<>>
    /\ UNCHANGED <<uiVerb, pre>>

\* pub fn stage(&self, path), lib.rs:71
stage(p) == spawned < MaxWorkers /\ Begin("stage", p, "index")

\* pub fn unstage(&self, path), lib.rs:79
unstage(p) == spawned < MaxWorkers /\ Begin("unstage", p, "index")

\* let mut index = self.repo.lock().unwrap().index()?;  lib.rs:72, 80
\* The guard is a temporary: the mutex is released at the end of this statement.
index_open ==
    /\ uiPc = "index"
    /\ repoLock = NoThread
    /\ IF poisoned
       THEN Panic("panic-poisoned") /\ UNCHANGED faulted
       ELSE \E ok \in BOOLEAN :
              IF ok THEN /\ uiPc' = "update"
                         /\ UNCHANGED <<uiVerb, uiArg, walked, uiRet, pre, faulted>>
                    ELSE Return("io", <<>>) /\ faulted' = TRUE
    /\ UNCHANGED <<repoVars, cacheVars, workerVars, repoLock, poisoned, spawned>>

\* index_update that leaves the change in memory and goes on to the refresh
\* without index.write().
index_update_without_write ==
    /\ uiPc = "update"
    /\ \E ok \in BOOLEAN :
         IF ok THEN /\ files' = IF uiVerb = "stage" THEN add_path(files, uiArg)
                                                    ELSE remove_path(files, uiArg)
                    /\ dirty' = TRUE
                    /\ uiPc' = "spawn"
                    /\ UNCHANGED <<uiVerb, uiArg, walked, uiRet, pre, faulted>>
               ELSE /\ Return("io", <<>>)
                    /\ faulted' = TRUE
                    /\ UNCHANGED <<files, dirty>>
    /\ UNCHANGED <<head, identity, cacheVars, workerVars, repoLock, poisoned, spawned>>

\* index.add_path(path)? / index.remove_path(path)?  lib.rs:73, 81 (no mutex held)
index_update ==
    /\ uiPc = "update"
    /\ \E ok \in BOOLEAN :
         IF ok THEN /\ files' = IF uiVerb = "stage" THEN add_path(files, uiArg)
                                                    ELSE remove_path(files, uiArg)
                    /\ dirty' = TRUE
                    /\ uiPc' = "write"
                    /\ UNCHANGED <<uiVerb, uiArg, walked, uiRet, pre, faulted>>
               ELSE /\ Return("io", <<>>)
                    /\ faulted' = TRUE
                    /\ UNCHANGED <<files, dirty>>
    /\ UNCHANGED <<head, identity, cacheVars, workerVars, repoLock, poisoned, spawned>>

\* index_write with the refresh scheduled before the result of the write is
\* looked at: a failed write still spawns the worker.
index_write_refresh_first ==
    /\ uiPc = "write"
    /\ \E ok \in BOOLEAN :
         IF ok THEN /\ dirty' = FALSE
                    /\ uiPc' = "spawn"
                    /\ UNCHANGED <<uiVerb, uiArg, walked, uiRet, pre, faulted, spawned, wpc>>
               ELSE /\ Return("io", <<>>)
                    /\ faulted' = TRUE
                    /\ spawned' = spawned + 1
                    /\ wpc' = [wpc EXCEPT ![spawned + 1] = "start"]
                    /\ UNCHANGED dirty
    /\ UNCHANGED <<files, head, identity, cacheVars, repoLock, poisoned, wres, wi, wat>>

\* index.write()?  lib.rs:74, 82 (no mutex held); then self.refresh()?
index_write ==
    /\ uiPc = "write"
    /\ \E ok \in BOOLEAN :
         IF ok THEN /\ dirty' = FALSE
                    /\ uiPc' = "spawn"
                    /\ UNCHANGED <<uiVerb, uiArg, walked, uiRet, pre, faulted>>
               ELSE /\ Return("io", <<>>)
                    /\ faulted' = TRUE
                    /\ UNCHANGED dirty
    /\ UNCHANGED <<files, head, identity, cacheVars, workerVars, repoLock, poisoned,
                   spawned>>

\* pub fn refresh(&self), lib.rs:218
refresh == spawned < MaxWorkers /\ Begin("refresh", "", "spawn")

\* std::thread::spawn(move || ..), lib.rs:223
refresh_spawn ==
    /\ uiPc = "spawn"
    /\ spawned' = spawned + 1
    /\ wpc' = [wpc EXCEPT ![spawned + 1] = "start"]
    /\ uiPc' = "rl_lock"
    /\ UNCHANGED <<repoVars, cacheVars, repoLock, poisoned, uiVerb, uiArg, walked, uiRet,
                   pre, wres, wi, wat, faulted>>

\* let repo = self.repo.lock().unwrap();  lib.rs:88 (called from lib.rs:253)
refresh_log_lock ==
    /\ uiPc = "rl_lock"
    /\ repoLock = NoThread
    /\ IF poisoned
       THEN Panic("panic-poisoned") /\ UNCHANGED repoLock
       ELSE /\ repoLock' = UI
            /\ uiPc' = "rl_walk"
            /\ UNCHANGED <<uiVerb, uiArg, walked, uiRet, pre>>
    /\ UNCHANGED <<repoVars, cacheVars, workerVars, poisoned, spawned, faulted>>

\* lib.rs:88 reached from commit (lib.rs:171), whose guard of lib.rs:145 is still
\* alive: std's Mutex::lock on a mutex the thread already holds never returns; it
\* deadlocks or panics.  A panic unwinds through commit and drops its guard, which
\* poisons and releases the mutex.
refresh_log_relock ==
    /\ uiPc = "rl_lock"
    /\ repoLock = UI
    /\ \E outcome \in {"deadlock", "panic-relock"} :
         /\ uiPc' = IF outcome = "deadlock" THEN "deadlocked" ELSE "panicked"
         /\ repoLock' = IF outcome = "deadlock" THEN UI ELSE NoThread
         /\ poisoned' = (outcome # "deadlock")
         /\ uiRet' = [verb |-> uiVerb, arg |-> DiffArg, kind |-> outcome, val |-> <<>>]
    /\ uiArg' = ""
    /\ pre' = NoPre
    /\ UNCHANGED <<repoVars, cacheVars, workerVars, uiVerb, walked, spawned, faulted>>

\* refresh_log_walk whose guard outlives the walk: the repository mutex stays
\* with the calling thread.
refresh_log_walk_keeps_guard ==
    /\ uiPc = "rl_walk"
    /\ \E ok \in BOOLEAN :
         IF ok /\ head # <<>>
         THEN /\ walked' = refresh_log(head, MAX_LOG)
              /\ uiPc' = "publish"
              /\ UNCHANGED <<uiVerb, uiArg, uiRet, pre, faulted>>
         ELSE /\ Return(IF uiVerb = "commit" THEN "ok"
                        ELSE IF head = <<>> THEN "refresh-unborn-head"
                        ELSE "refresh-io", <<>>)
              /\ faulted' = (faulted \/ head # <<>>)
    /\ UNCHANGED <<repoVars, cacheVars, workerVars, repoLock, poisoned, spawned>>

\* revwalk()?, push_head()?, the loop, Ok(log); the guard drops on return.
\* lib.rs:91-141.  push_head fails on an unborn HEAD.  An Err leaves refresh by
\* the `?` of lib.rs:253, and stage/unstage by the `?` of lib.rs:75, 83; commit
\* discards it (lib.rs:171) and returns Ok(()).
refresh_log_walk ==
    /\ uiPc = "rl_walk"
    /\ \E ok \in BOOLEAN :
         IF ok /\ head # <<>>
         THEN /\ walked' = refresh_log(head, MAX_LOG)
              /\ uiPc' = "publish"
              /\ UNCHANGED <<uiVerb, uiArg, uiRet, pre, faulted>>
         ELSE /\ Return(IF uiVerb = "commit" THEN "ok"
                        ELSE IF head = <<>> THEN "refresh-unborn-head"
                        ELSE "refresh-io", <<>>)
              /\ faulted' = (faulted \/ head # <<>>)
    /\ repoLock' = NoThread
    /\ UNCHANGED <<repoVars, cacheVars, workerVars, poisoned, spawned>>

\* refresh_publish_log returning without the assignment to the log projection.
refresh_publish_log_skipped ==
    /\ uiPc = "publish"
    /\ Return("ok", <<>>)
    /\ UNCHANGED <<repoVars, cacheVars, workerVars, repoLock, poisoned, spawned, faulted>>

\* *self.log.lock().unwrap() = log; Ok(())  lib.rs:254-256
refresh_publish_log ==
    /\ uiPc = "publish"
    /\ log' = walked
    /\ Return("ok", <<>>)
    /\ UNCHANGED <<repoVars, statuses, local_refresh, remote_refresh, workerVars,
                   repoLock, poisoned, spawned, faulted>>

\* pub fn commit(&self), lib.rs:144, called with the UI's commit_message
\* (main.rs:146-148); the message is not a parameter of commit.
commit(m) == spawned < MaxWorkers /\ Begin("commit", m, "c_lock")

\* let repo = self.repo.lock().unwrap();  lib.rs:145 (held until commit returns)
commit_lock ==
    /\ uiPc = "c_lock"
    /\ repoLock = NoThread
    /\ IF poisoned
       THEN Panic("panic-poisoned") /\ UNCHANGED repoLock
       ELSE /\ repoLock' = UI
            /\ uiPc' = "c_body"
            /\ UNCHANGED <<uiVerb, uiArg, walked, uiRet, pre>>
    /\ UNCHANGED <<repoVars, cacheVars, workerVars, poisoned, spawned, faulted>>

\* The commit recorded by repo.commit(Some("HEAD"), .., "Your commit message", ..)
\* lib.rs:160-167
NewCommit(h, m) == [id |-> Len(h) + 1, message |-> HardCodedMessage]

\* config, user.name, user.email, head, peel_to_commit, index, write_tree,
\* find_tree, Signature::now, repo.commit: lib.rs:147-167, each leaving by `?`
\* on an Err (the guard drops); then _ = self.refresh() with the guard alive.
commit_body ==
    /\ uiPc = "c_body"
    /\ IF ~identity
       THEN Return("missing-identity", <<>>) /\ repoLock' = NoThread
            /\ UNCHANGED <<files, head>>
       ELSE IF head = <<>>
       THEN Return("unborn-head", <<>>) /\ repoLock' = NoThread
            /\ UNCHANGED <<files, head>>
       ELSE \E ok \in BOOLEAN :
              IF ok THEN /\ head' = <<NewCommit(head, uiArg)>> \o head
                         /\ files' = commit_tree(files)
                         /\ uiPc' = "spawn"
                         /\ UNCHANGED <<repoLock, uiVerb, uiArg, walked, uiRet, pre>>
                    ELSE /\ Return("io", <<>>)
                         /\ repoLock' = NoThread
                         /\ UNCHANGED <<files, head>>
    /\ UNCHANGED <<dirty, identity, cacheVars, workerVars, poisoned, spawned, faulted>>

\* pub fn diff(&self, path), lib.rs:177
diff(p) == Begin("diff", p, "d_lock")

\* let repo = self.repo.lock().unwrap();  lib.rs:178
diff_lock ==
    /\ uiPc = "d_lock"
    /\ repoLock = NoThread
    /\ IF poisoned
       THEN Panic("panic-poisoned") /\ UNCHANGED repoLock
       ELSE /\ repoLock' = UI
            /\ uiPc' = "d_body"
            /\ UNCHANGED <<uiVerb, uiArg, walked, uiRet, pre>>
    /\ UNCHANGED <<repoVars, cacheVars, workerVars, poisoned, spawned, faulted>>

\* diff_body that schedules a status refresh as it returns.
diff_body_refreshes ==
    /\ uiPc = "d_body"
    /\ IF head = <<>>
       THEN Return("unborn-head", <<>>)
       ELSE \E ok \in BOOLEAN :
              IF ok THEN Return("ok", DiffText(files, uiArg))
                    ELSE Return("io", <<>>)
    /\ repoLock' = NoThread
    /\ IF spawned < MaxWorkers
       THEN /\ spawned' = spawned + 1
            /\ wpc' = [wpc EXCEPT ![spawned + 1] = "start"]
       ELSE UNCHANGED <<spawned, wpc>>
    /\ UNCHANGED <<repoVars, cacheVars, wres, wi, wat, poisoned, faulted>>

\* head()?.peel_to_commit()?, tree()?, diff_tree_to_workdir(..)?, print(..)?,
\* Ok(result); the guard drops on return.  lib.rs:181-212
diff_body ==
    /\ uiPc = "d_body"
    /\ IF head = <<>>
       THEN Return("unborn-head", <<>>)
       ELSE \E ok \in BOOLEAN :
              IF ok THEN Return("ok", DiffText(files, uiArg))
                    ELSE Return("io", <<>>)
    /\ repoLock' = NoThread
    /\ UNCHANGED <<repoVars, cacheVars, workerVars, poisoned, spawned, faulted>>

\* pub fn get_root(&self), lib.rs:56
get_root_call == Begin("get_root", "", "g_lock")

\* self.repo.lock().unwrap().commondir().to_path_buf()  lib.rs:57
get_root ==
    /\ uiPc = "g_lock"
    /\ repoLock = NoThread
    /\ IF poisoned THEN Panic("panic-poisoned") ELSE Return("ok", <<".git">>)
    /\ UNCHANGED <<repoVars, cacheVars, workerVars, repoLock, poisoned, spawned, faulted>>

\* A snapshot accessor: one statement under the projection's own mutex.
Accessor(verb, val) ==
    /\ uiPc = "idle"
    /\ uiVerb' = verb
    /\ uiRet' = [verb |-> verb, arg |-> "", kind |-> "ok", val |-> val]
    /\ UNCHANGED <<repoVars, cacheVars, workerVars, repoLock, poisoned, uiPc, uiArg,
                   walked, pre, spawned, faulted>>

\* get_statuses reading through the repository mutex.
get_statuses_locks_repo == repoLock = NoThread /\ Accessor("get_statuses", statuses)

\* lib.rs:48-50
get_statuses == Accessor("get_statuses", statuses)

\* lib.rs:52-54
get_log == Accessor("get_log", log)

\* lib.rs:36-38
get_local_refresh == Accessor("get_local_refresh", <<local_refresh>>)

\* lib.rs:40-42
get_remote_refresh == Accessor("get_remote_refresh", <<remote_refresh>>)

\* lib.rs:44-46
is_local_refreshed == Accessor("is_local_refreshed", <<local_refresh # NoTime>>)

-----------------------------------------------------------------------------
(* A background worker: the closure of lib.rs:223-249 *)

\* worker_lock that does not wait for the holder of the repository mutex.
worker_lock_no_wait(w) ==
    /\ wpc[w] = "start"
    /\ IF poisoned
       THEN wpc' = [wpc EXCEPT ![w] = "dead"] /\ UNCHANGED repoLock
       ELSE wpc' = [wpc EXCEPT ![w] = "statuses"] /\ repoLock' = Holder(w)
    /\ UNCHANGED <<repoVars, cacheVars, poisoned, uiPc, uiVerb, uiArg, walked, uiRet,
                   pre, spawned, wres, wi, wat, faulted>>

\* let binding = repo.lock().unwrap();  lib.rs:230
worker_lock(w) ==
    /\ wpc[w] = "start"
    /\ repoLock = NoThread
    /\ IF poisoned
       THEN wpc' = [wpc EXCEPT ![w] = "dead"] /\ UNCHANGED repoLock
       ELSE wpc' = [wpc EXCEPT ![w] = "statuses"] /\ repoLock' = Holder(w)
    /\ UNCHANGED <<repoVars, cacheVars, poisoned, uiPc, uiVerb, uiArg, walked, uiRet,
                   pre, spawned, wres, wi, wat, faulted>>

\* worker_statuses with the repository guard dropped as soon as the
\* enumeration returns, instead of at the end of the closure.
worker_statuses_releases_lock(w) ==
    /\ wpc[w] = "statuses"
    /\ \E ok \in BOOLEAN :
         IF ok THEN /\ wres' = [wres EXCEPT ![w] = StatusList(files)]
                    /\ wpc' = [wpc EXCEPT ![w] = "clear"]
                    /\ UNCHANGED <<poisoned, faulted>>
               ELSE /\ wpc' = [wpc EXCEPT ![w] = "failed"]
                    /\ poisoned' = TRUE
                    /\ faulted' = TRUE
                    /\ UNCHANGED wres
    /\ repoLock' = NoThread
    /\ UNCHANGED <<repoVars, cacheVars, uiPc, uiVerb, uiArg, walked, uiRet, pre,
                   spawned, wi, wat>>

\* worker_statuses with the projection cleared before the enumeration is
\* known to have succeeded.
worker_statuses_clear_first(w) ==
    /\ wpc[w] = "statuses"
    /\ \E ok \in BOOLEAN :
         IF ok THEN /\ wres' = [wres EXCEPT ![w] = StatusList(files)]
                    /\ wpc' = [wpc EXCEPT ![w] = "clear"]
                    /\ UNCHANGED <<repoLock, poisoned, faulted>>
               ELSE /\ wpc' = [wpc EXCEPT ![w] = "failed"]
                    /\ repoLock' = NoThread
                    /\ poisoned' = TRUE
                    /\ faulted' = TRUE
                    /\ UNCHANGED wres
    /\ statuses' = <<>>
    /\ UNCHANGED <<repoVars, log, local_refresh, remote_refresh, uiPc, uiVerb, uiArg,
                   walked, uiRet, pre, spawned, wi, wat>>

\* let statuses = binding.statuses(Some(&mut status_opts)).unwrap();  lib.rs:231
\* On an Err the unwrap panics: `binding` drops during the unwind, which
\* poisons and releases the repository mutex.
worker_statuses(w) ==
    /\ wpc[w] = "statuses"
    /\ \E ok \in BOOLEAN :
         IF ok THEN /\ wres' = [wres EXCEPT ![w] = StatusList(files)]
                    /\ wpc' = [wpc EXCEPT ![w] = "clear"]
                    /\ UNCHANGED <<repoLock, poisoned, faulted>>
               ELSE /\ wpc' = [wpc EXCEPT ![w] = "failed"]
                    /\ repoLock' = NoThread
                    /\ poisoned' = TRUE
                    /\ faulted' = TRUE
                    /\ UNCHANGED wres
    /\ UNCHANGED <<repoVars, cacheVars, uiPc, uiVerb, uiArg, walked, uiRet, pre,
                   spawned, wi, wat>>

\* worker_clear that writes the timestamp as it starts to publish, before the
\* list is in.
worker_clear_stamps(w) ==
    /\ wpc[w] = "clear"
    /\ statuses' = <<>>
    /\ local_refresh' = Some(w)
    /\ wi' = [wi EXCEPT ![w] = 0]
    /\ wpc' = [wpc EXCEPT ![w] = IF wres[w] = <<>> THEN "stamp" ELSE "push"]
    /\ UNCHANGED <<repoVars, log, remote_refresh, repoLock, poisoned,
                   uiPc, uiVerb, uiArg, walked, uiRet, pre, spawned, wres, wat, faulted>>

\* r_statuses.lock().unwrap().clear();  lib.rs:234
worker_clear(w) ==
    /\ wpc[w] = "clear"
    /\ statuses' = <<>>
    /\ wi' = [wi EXCEPT ![w] = 0]
    /\ wpc' = [wpc EXCEPT ![w] = IF wres[w] = <<>> THEN "stamp" ELSE "push"]
    /\ UNCHANGED <<repoVars, log, local_refresh, remote_refresh, repoLock, poisoned,
                   uiPc, uiVerb, uiArg, walked, uiRet, pre, spawned, wres, wat, faulted>>

\* r_statuses.lock().unwrap().push(FileStatus {..});  lib.rs:235-242
worker_push(w) ==
    /\ wpc[w] = "push"
    /\ statuses' = Append(statuses, wres[w][wi[w] + 1])
    /\ wi' = [wi EXCEPT ![w] = wi[w] + 1]
    /\ wpc' = [wpc EXCEPT ![w] = IF wi[w] + 1 = Len(wres[w]) THEN "stamp" ELSE "push"]
    /\ UNCHANGED <<repoVars, log, local_refresh, remote_refresh, repoLock, poisoned,
                   uiPc, uiVerb, uiArg, walked, uiRet, pre, spawned, wres, wat, faulted>>

\* *local_refresh.lock().unwrap() = Some(SystemTime::now()); the closure ends
\* and `binding` drops.  lib.rs:244-249.  The instant is named by the worker.
worker_stamp(w) ==
    /\ wpc[w] = "stamp"
    /\ local_refresh' = Some(w)
    /\ wat' = [wat EXCEPT ![w] = spawned]
    /\ repoLock' = NoThread
    /\ wpc' = [wpc EXCEPT ![w] = "done"]
    /\ UNCHANGED <<repoVars, statuses, log, remote_refresh, poisoned, uiPc, uiVerb,
                   uiArg, walked, uiRet, pre, spawned, wres, wi, faulted>>

worker(w) ==
    \/ worker_lock(w)
    \/ worker_statuses(w)
    \/ worker_clear(w)
    \/ worker_push(w)
    \/ worker_stamp(w)

-----------------------------------------------------------------------------
(* Specifications *)

\* The steps the calling thread takes inside a verb it has entered.
UIStep ==
    \/ index_open
    \/ index_update
    \/ index_write
    \/ refresh_spawn
    \/ refresh_log_lock
    \/ refresh_log_relock
    \/ refresh_log_walk
    \/ refresh_publish_log
    \/ commit_lock
    \/ commit_body
    \/ diff_lock
    \/ diff_body
    \/ get_root

\* The verbs and accessors the UI may call when it is idle.
UICall ==
    \/ refresh
    \/ \E p \in Paths : stage(p)
    \/ \E p \in Paths : unstage(p)
    \/ \E m \in Messages : commit(m)
    \/ \E p \in Paths : diff(p)
    \/ get_root_call
    \/ get_statuses
    \/ get_log
    \/ get_local_refresh
    \/ get_remote_refresh
    \/ is_local_refreshed

Next ==
    \/ UICall
    \/ UIStep
    \/ \E w \in Workers : worker(w)

Spec == Init /\ [][Next]_vars

\* Every thread that can take a step is eventually scheduled; the user is not
\* obliged to call anything.
FairSpec == Spec /\ WF_vars(UIStep) /\ \A w \in Workers : WF_vars(worker(w))

\* As FairSpec, and a worker that finds the repository mutex free again and
\* again gets it in the end: the callers of lock() are not served in order,
\* but none is passed over forever.
LockFairSpec == Spec /\ WF_vars(UIStep) /\ \A w \in Workers : SF_vars(worker(w))

-----------------------------------------------------------------------------
(* Properties *)

Mutators == {"stage", "unstage", "commit"}

\* Every spawned worker has finished (or died) and no verb is running.
Quiescent ==
    /\ uiPc = "idle"
    /\ \A w \in Workers : wpc[w] \in {"unborn", "done", "failed", "dead"}

\* A worker that got as far as computing its status list.
Computed(w) == wpc[w] \in {"clear", "push", "stamp", "done"}

\* The threads inside an adapter operation on the repository.
InAdapter ==
    {t \in {UI} : uiPc \in {"update", "write", "rl_walk", "c_body", "d_body"}}
    \cup {Holder(w) : w \in {x \in Workers : wpc[x] = "statuses"}}

\* C1: every list get_statuses() returns is the initial empty list or the
\* complete list one worker computed; never a cleared, partly refilled one.
C1_AtomicStatusPublication ==
    (uiRet.verb = "get_statuses") =>
        \/ uiRet.val = <<>>
        \/ \E w \in Workers : Computed(w) /\ uiRet.val = wres[w]

\* C2: at most one thread is executing an adapter operation at any instant.
C2_OneAdapterCallAtATime == Cardinality(InAdapter) <= 1

\* C3: a commit call that has recorded its commit eventually returns Ok to
\* the caller.
C3_CommitCompletes ==
    (uiVerb = "commit" /\ uiPc = "spawn")
        ~> (uiPc = "idle" /\ uiRet.verb = "commit" /\ uiRet.kind = "ok")

SteadyState ==
    /\ statuses = StatusList(files)
    /\ log = refresh_log(head, MAX_LOG)

C5_CommitCarriesMessage ==
    (uiVerb = "commit" /\ uiPc = "spawn") => head[1].message = uiArg

\* C6: a stage, unstage or commit call that returns the error of its own
\* mutation has spawned no worker and has written neither projection nor
\* the timestamp, and has recorded no commit.
C6_FailedMutationStep ==
    LET failing == /\ uiPc # "idle"
                   /\ uiPc' = "idle"
                   /\ uiVerb \in Mutators
                   /\ uiRet'.kind \in {"io", "missing-identity", "unborn-head"}
        mutating == /\ uiPc \in {"index", "update", "write", "c_lock", "c_body"}
                    /\ uiPc' # uiPc
    IN /\ failing => /\ spawned' = pre.spawned
                     /\ log' = pre.log
                     /\ head' = pre.head
                     /\ UNCHANGED <<statuses, local_refresh>>
       /\ mutating => UNCHANGED <<statuses, log, local_refresh, spawned>>

\* C6: every step of a run satisfies the condition above: a failed stage,
\* unstage or commit starts no refresh and leaves the cache as it was.
C6_FailedMutationStartsNoRefresh == [][C6_FailedMutationStep]_vars

C6_Witness ==
    /\ uiPc = "idle"
    /\ uiRet.verb = "stage"
    /\ uiRet.kind = "io"
    /\ spawned = 1
    /\ statuses # <<>>
    /\ log # <<>>

\* C7: stage and unstage return an error only when the index add/remove or
\* the index write failed, never because of the refresh they schedule.
C7_StageFireAndForget ==
    (uiPc = "idle" /\ uiRet.verb \in {"stage", "unstage"} /\ uiRet.kind # "ok")
        => uiRet.kind = "io"

\* C8: a worker writes neither the status projection nor local_refresh before
\* its enumeration has returned, and from the step in which the enumeration
\* fails onwards both keep the values they had.
C8_FailedRefreshStep ==
    /\ (\E w \in Workers : wpc[w] \in {"start", "statuses"} /\ wpc'[w] # wpc[w])
           => UNCHANGED <<statuses, local_refresh>>
    /\ (\E w \in Workers : wpc'[w] = "failed") => UNCHANGED <<statuses, local_refresh>>

\* C8: every step of a run satisfies the condition above: a failed status
\* refresh neither clears nor overwrites the projection nor advances the time.
C8_FailedRefreshKeepsProjection == [][C8_FailedRefreshStep]_vars

C8_Witness ==
    /\ \E w \in Workers : wpc[w] = "failed"
    /\ statuses # <<>>
    /\ local_refresh # NoTime

\* C9: a call the calling thread begins after a worker's status enumeration
\* has failed does not panic.
C9_NoPanicAfterWorkerFailure ==
    ~(uiPc = "panicked" /\ uiRet.kind = "panic-poisoned" /\ pre.workerFailed)

\* C10: when refresh() has returned Ok, the log projection is the log walked
\* from HEAD, whether or not the worker it spawned has run.
C10_LogPublishedOnReturn ==
    (uiPc = "idle" /\ uiRet.verb = "refresh" /\ uiRet.kind = "ok")
        => log = refresh_log(head, MAX_LOG)

C10_Witness ==
    /\ uiPc = "idle"
    /\ uiRet.verb = "refresh"
    /\ uiRet.kind = "ok"
    /\ spawned >= 1
    /\ wpc[spawned] = "start"
    /\ Len(log) = MAX_LOG
    /\ Len(head) > MAX_LOG

\* C11: a stage, unstage or commit call that has modified the repository
\* ends having spawned exactly one worker and having walked the log once.
C11_OneRefreshStep ==
    LET ending == /\ uiVerb \in Mutators
                  /\ uiPc \in {"rl_lock", "rl_walk", "publish"}
                  /\ uiPc' \in {"idle", "deadlocked", "panicked"}
    IN ending => /\ spawned' = pre.spawned + 1
                 /\ uiPc \in {"rl_walk", "publish"}

\* C11: every step of a run satisfies the condition above: each successful
\* stage, unstage or commit starts one worker and one log recomputation.
C11_ExactlyOneRefresh == [][C11_OneRefreshStep]_vars

\* What the repository holds once the mutation of the call in progress is in.
MutationApplied ==
    CASE uiVerb = "stage"   -> files = add_path(pre.files, uiArg) /\ ~dirty
      [] uiVerb = "unstage" -> files = remove_path(pre.files, uiArg) /\ ~dirty
      [] uiVerb = "commit"  -> /\ Len(head) = Len(pre.head) + 1
                               /\ SubSeq(head, 2, Len(head)) = pre.head
                               /\ files = commit_tree(pre.files)
      [] OTHER              -> TRUE

\* C12: from the spawn of the worker a stage, unstage or commit triggers, the
\* index write or the commit is complete, and what that worker enumerates
\* and what the triggered log walk reads is the repository with the mutation.
C12_MutationBeforeRefresh ==
    (uiVerb \in Mutators /\ uiPc \in {"rl_lock", "rl_walk", "publish"})
        => /\ spawned = pre.spawned + 1
           /\ MutationApplied
           /\ Computed(spawned) => wres[spawned] = StatusList(files)
           /\ uiPc = "publish" => walked = refresh_log(head, MAX_LOG)

C12_Witness ==
    /\ uiVerb = "stage"
    /\ uiPc = "publish"
    /\ Computed(spawned)
    /\ pre.files[uiArg] = "untracked"
    /\ files[uiArg] = "staged"

\* A background status refresh has completed successfully.
RefreshCompleted == \E w \in Workers : wpc[w] = "done"

\* C13: a step changes local_refresh only as the last act of a worker whose
\* whole list is in the status projection, and never back to absent.
C13_StampStep ==
    /\ local_refresh # NoTime => local_refresh' # NoTime
    /\ local_refresh' # local_refresh
           => \E w \in Workers : /\ wpc[w] = "stamp"
                                 /\ wpc'[w] = "done"
                                 /\ statuses = wres[w]
                                 /\ statuses' = statuses
                                 /\ local_refresh' = Some(w)

\* C13: local_refresh is absent exactly while no background status refresh
\* has completed; once present it stays present; only a worker that has
\* finished publishing its list writes it.
C13_LocalRefreshIffCompleted ==
    /\ []((local_refresh = NoTime) <=> ~RefreshCompleted)
    /\ [][C13_StampStep]_vars

C13_Witness ==
    /\ local_refresh # NoTime
    /\ RefreshCompleted
    /\ \E w \in Workers : wpc[w] = "failed"
    /\ uiRet.verb = "is_local_refreshed"
    /\ uiRet.val = <<TRUE>>

\* The first min(MAX_LOG, n) commits of the walk from HEAD, newest first.
NewestCommits ==
    LET n == IF Len(head) < MAX_LOG THEN Len(head) ELSE MAX_LOG
    IN [i \in 1..n |-> LogItemOf(head[i])]

\* C14: the log projection never has more than MAX_LOG items, and when a call
\* that refreshes has returned Ok it is the first min(MAX_LOG, n) commits of
\* the walk from HEAD, in walk order.
C14_LogBounded ==
    /\ Len(log) <= MAX_LOG
    /\ (uiPc = "idle" /\ uiRet.verb \in {"refresh", "stage", "unstage"} /\ uiRet.kind = "ok")
           => log = NewestCommits

C14_Witness ==
    /\ uiPc = "idle"
    /\ uiRet.verb = "stage"
    /\ uiRet.kind = "ok"
    /\ Len(head) = MAX_LOG + 1
    /\ Len(log) = MAX_LOG
    /\ log[1] = LogItemOf(head[1])

\* An adapter call is executing: a thread is inside the repository library.
AdapterCallRunning ==
    \/ uiPc \in {"update", "write", "rl_walk", "c_body", "d_body"}
    \/ \E w \in Workers : wpc[w] = "statuses"

\* C15: a step that writes a projection or the timestamp, which is when its
\* mutex is held, is no adapter call: it reads and writes nothing of the
\* repository and enumerates nothing.
C15_ProjectionStep ==
    (cacheVars' # cacheVars)
        => /\ UNCHANGED <<repoVars, wres>>
           /\ ~(uiPc \in {"update", "write", "rl_walk", "c_body", "d_body"} /\ uiPc' # uiPc)
           /\ ~(\E w \in Workers : wpc[w] = "statuses" /\ wpc'[w] # wpc[w])

\* C15: whenever the calling thread is between calls, each projection accessor
\* can return at once, whoever holds the repository mutex and whatever
\* adapter call is executing; and the projections are written only outside
\* adapter calls.
C15_AccessorsNeverWait ==
    /\ [](uiPc = "idle" => /\ ENABLED get_statuses
                           /\ ENABLED get_log
                           /\ ENABLED get_local_refresh
                           /\ ENABLED get_remote_refresh
                           /\ ENABLED is_local_refreshed)
    /\ [][C15_ProjectionStep]_vars

C15_Witness ==
    /\ uiPc = "idle"
    /\ AdapterCallRunning
    /\ \E w \in Workers : repoLock = Holder(w)
    /\ uiRet.verb = "get_log"
    /\ uiRet.val = log
    /\ log # <<>>

\* C16: a get_root() call can return at once, whether or not a worker is at
\* its adapter work.
C16_GetRootNeverWaits == uiPc = "g_lock" => ENABLED get_root

\* C17: when get_statuses() is called twice with no call in between and the
\* second list differs from the first, the second is the complete list of
\* a worker that was spawned after the first was published, at construction
\* or by an earlier worker.
C17_SnapshotStep ==
    LET second == /\ uiPc = "idle"
                  /\ uiRet.verb = "get_statuses"
                  /\ uiRet'.verb = "get_statuses"
        PublishedBefore(w) ==
            \/ uiRet.val = <<>>
            \/ \E v \in Workers : /\ wpc[v] = "done"
                                  /\ wres[v] = uiRet.val
                                  /\ wat[v] < w
    IN (second /\ uiRet'.val # uiRet.val)
           => \E w \in Workers : /\ wpc[w] \in {"stamp", "done"}
                                 /\ wres[w] = uiRet'.val
                                 /\ PublishedBefore(w)

\* C17: every step of a run satisfies the condition above: two status
\* snapshots read between two mutations are identical or the later one comes
\* from a refresh started after the earlier one was published.
C17_SnapshotsOrdered == [][C17_SnapshotStep]_vars

\* C18: a refresh() on a repository whose HEAD resolves to no commit, and
\* that meets no other failure, returns Ok with the log projection empty.
C18_UnresolvedHeadIsEmptyLog ==
    (uiPc = "idle" /\ uiRet.verb = "refresh" /\ head = <<>> /\ uiRet.kind # "refresh-io")
        => (uiRet.kind = "ok" /\ log = <<>>)

\* C19: right after open no worker exists; until a refresh is started the
\* projections are empty and local_refresh absent, and the accessors say so;
\* remote_refresh is absent in every state.
C19_FreshCacheIsEmpty ==
    /\ remote_refresh = NoTime
    /\ uiRet.verb = "get_remote_refresh" => uiRet.val = <<NoTime>>
    /\ (uiPc = "idle" /\ uiRet.verb = "open") => spawned = 0
    /\ spawned = 0
          => /\ statuses = <<>>
             /\ log = <<>>
             /\ local_refresh = NoTime
             /\ \A w \in Workers : wpc[w] = "unborn"
             /\ uiRet.verb = "is_local_refreshed" => uiRet.val = <<FALSE>>
             /\ uiRet.verb = "get_local_refresh" => uiRet.val = <<NoTime>>
             /\ uiRet.verb \in {"get_statuses", "get_log"} => uiRet.val = <<>>

C19_Witness ==
    /\ spawned = 0
    /\ uiPc = "idle"
    /\ uiRet.verb = "is_local_refreshed"
    /\ uiRet.val = <<FALSE>>
    /\ head # <<>>

\* C20: no step of a diff call changes a projection, the timestamps, the
\* index, HEAD or the number of refreshes started; the calling thread holds
\* the repository mutex for diff exactly while it is inside the call; and a
\* diff that returns right after a diff of the same path, neither of them
\* failing on I/O, returns the same result.
C20_DiffStep ==
    LET step == /\ uiPc' # uiPc
                /\ \/ uiVerb = "diff" /\ uiPc \in {"d_lock", "d_body"}
                   \/ uiVerb' = "diff" /\ uiPc' = "d_lock"
        again == /\ uiPc = "d_body"
                 /\ uiPc' = "idle"
                 /\ uiRet.verb = "diff"
                 /\ uiRet.arg = uiArg
                 /\ uiRet.kind # "io"
                 /\ uiRet'.kind # "io"
    IN /\ step => UNCHANGED <<cacheVars, repoVars, spawned, wpc>>
       /\ uiVerb' = "diff" => (repoLock' = UI <=> uiPc' = "d_body")
       /\ again => (uiRet'.kind = uiRet.kind /\ uiRet'.val = uiRet.val)

\* C20: every step of a run satisfies the condition above: diff touches no
\* cached state, holds the repository mutex only during the call, and gives
\* the same result when called twice with no mutation in between.
C20_DiffIsPure == [][C20_DiffStep]_vars

C20_Witness ==
    /\ uiVerb = "diff"
    /\ uiPc = "d_body"
    /\ uiRet.verb = "diff"
    /\ uiRet.arg = uiArg
    /\ uiRet.kind = "ok"
    /\ uiRet.val # <<>>
    /\ spawned >= 1

\* No adapter call has failed and no commit is under way or stuck.
NoFailureNoCommit == ~faulted /\ uiVerb # "commit"

\* The calling thread is at a lock() of the repository mutex.
UIAtLock == uiPc \in {"index", "rl_lock", "d_lock", "g_lock"}

\* C21: a step that writes the status projection or local_refresh is taken
\* by the worker that holds the repository mutex, and a step of the calling
\* thread that writes or reads a projection is taken without it.
C21_LockOrderStep ==
    NoFailureNoCommit
        => /\ (statuses' # statuses \/ local_refresh' # local_refresh)
                => \E w \in Workers : /\ repoLock = Holder(w)
                                      /\ wpc[w] \in {"clear", "push", "stamp"}
           /\ (uiPc \in {"idle", "publish"} /\ (uiRet' # uiRet \/ log' # log))
                => repoLock # UI

Publishing == {w \in Workers : wpc[w] \in {"clear", "push", "stamp"}}

\* A worker holds the repository mutex from its lock() to the end of its closure.
HoldsThroughout ==
    \A w \in Workers :
        wpc[w] \in {"statuses", "clear", "push", "stamp"} => repoLock = Holder(w)

\* The status projection is written by one worker at a time, the one that holds
\* the repository mutex, and each push appends the next entry of its own list.
NoInterleaveStep ==
    statuses' # statuses
        => \E w \in Workers : /\ Publishing = {w}
                              /\ repoLock = Holder(w)
                              /\ statuses' = SubSeq(wres[w], 1, Len(statuses'))

NoDuplicates ==
    \A i, j \in 1..Len(statuses) : statuses[i].path = statuses[j].path => i = j

\* C22: the writes of two workers never interleave, and while no worker is
\* publishing the status projection is the full list, with no duplicates, of
\* the worker that acquired the repository mutex last; the worker that holds
\* the mutex is the one that acquired it last.  Stated for the runs in which
\* no adapter call has failed.
C22_LastAcquirerPublished ==
    /\ [](HoldsThroughout /\ NoDuplicates)
    /\ []((Publishing = {} /\ local_refresh # NoTime /\ ~faulted)
             => \E w \in Workers : /\ Computed(w)
                                   /\ statuses = wres[w]
                                   /\ \A v \in Workers : repoLock = Holder(v) => v = w)
    /\ [][NoInterleaveStep]_vars

\* C22 restated: as above, with the worker named as the one that wrote
\* local_refresh last, that is, the last one to finish publishing; before
\* any worker has finished the projection is empty.
C22_LastPublisherPublished ==
    /\ [](HoldsThroughout /\ NoDuplicates)
    /\ []((Publishing = {} /\ local_refresh # NoTime)
             => \E w \in Workers : /\ local_refresh = Some(w)
                                   /\ wpc[w] = "done"
                                   /\ statuses = wres[w])
    /\ []((Publishing = {} /\ local_refresh = NoTime) => statuses = <<>>)
    /\ [][NoInterleaveStep]_vars

C22_Witness ==
    /\ Publishing = {}
    /\ \A w \in Workers : wpc[w] = "done"
    /\ \E w \in Workers : local_refresh = Some(w) /\ statuses = wres[w]
    /\ \E v \in Workers : statuses # wres[v]

====
